---- MODULE Spec2Model ----
(***************************************************************************)
(* Model of pastebinProvider.Configure (terraform-provider-pastebin).      *)
(*                                                                         *)
(* One Configure call is a straight-line routine with three early returns. *)
(* The model follows it block by block; pc names the block that runs next. *)
(* Strings are sequences of one-character strings, so that url.Parse can   *)
(* be computed on them character by character.                             *)
(***************************************************************************)
EXTENDS Integers, Sequences, FiniteSets, TLC

VARIABLES
    cfg,            \* req.Config as decoded into pastebinProviderModel
    env,            \* the process environment (three variables)
    getDiags,       \* what req.Config.Get returns
    ctorFails,      \* the external constructor did not produce a working client
    pc,             \* the block of Configure that runs next
    host,           \* local host
    devKey,         \* local devKey
    userKey,        \* local userKey
    hostUrl,        \* local hostUrl
    err,            \* local err (TRUE: non-nil)
    diags,          \* resp.Diagnostics
    DataSourceData, \* resp.DataSourceData
    ResourceData    \* resp.ResourceData

vars == << cfg, env, getDiags, ctorFails, pc, host, devKey, userKey, hostUrl,
           err, diags, DataSourceData, ResourceData >>

inputs == << cfg, env, getDiags, ctorFails >>

-----------------------------------------------------------------------------
(* Strings                                                                 *)

Letters ==
    { "a", "b", "c", "d", "e", "f", "g", "h", "i", "j", "k", "l", "m",
      "n", "o", "p", "q", "r", "s", "t", "u", "v", "w", "x", "y", "z",
      "A", "B", "C", "D", "E", "F", "G", "H", "I", "J", "K", "L", "M",
      "N", "O", "P", "Q", "R", "S", "T", "U", "V", "W", "X", "Y", "Z" }

Digits == { "0", "1", "2", "3", "4", "5", "6", "7", "8", "9" }

\* bytes below ' ' (and 0x7f); the tab stands for them
CTLBytes == { "\t" }

EmptyString == << >>

DefaultHost ==
    << "h", "t", "t", "p", "s", ":", "/", "/",
       "p", "a", "s", "t", "e", "b", "i", "n", ".", "c", "o", "m" >>

\* the example of an invalid host: "::not a url::"
NotAUrl ==
    << ":", ":", "n", "o", "t", " ", "a", " ", "u", "r", "l", ":", ":" >>

ExampleHost == << "h", "t", "t", "p", ":", "/", "/", "x" >>

HostValues ==
    { EmptyString,
      DefaultHost,
      ExampleHost,                                        \* http://x
      NotAUrl,                                            \* missing scheme
      << "x", " ", "y" >>,                                \* a path with a space
      << "x", ":", "y" >>,                                \* scheme x, opaque y
      << "1", ":", "x" >>,                                \* colon in first segment
      << "h", ":", "/", "/", "x", " ", "y" >>,            \* space in host name
      << "h", ":", "/", "/", "x", ":", "y" >>,            \* port is not a number
      << "h", ":", "/", "/", "x", ":", "8", "/", "p" >>,  \* host, port and path
      << "\t", "x" >> }                                   \* control character

DevKeyValues == { EmptyString, << "D" >> }
UserKeyValues == { EmptyString, << "U" >> }
EnvDevKeyValues == { EmptyString, << "e", "n", "v", "d", "e", "v" >> }
EnvUserKeyValues == { EmptyString, << "e", "n", "v", "u", "s", "e", "r" >> }

-----------------------------------------------------------------------------
(* types.String: null, unknown or a known string                           *)

Null == [state |-> "unset", val |-> EmptyString]
Unknown == [state |-> "deferred", val |-> EmptyString]
StringValue(s) == [state |-> "set", val |-> s]

FieldsOf(values) == { Null, Unknown } \cup { StringValue(s) : s \in values }

IsUnknown(f) == f.state = "deferred"
IsNull(f) == f.state = "unset"
\* ValueString is "" for a null or unknown value
ValueString(f) == IF f.state = "set" THEN f.val ELSE EmptyString

FieldNames == { "host", "dev_key", "user_key" }

-----------------------------------------------------------------------------
(* Diagnostics                                                             *)

AttributeError(p, summary) ==
    [severity |-> "error", path |-> p, summary |-> summary]

\* the same diagnostic is not appended twice (diag.Diagnostics.Append)
Append1(ds, d) ==
    IF \E i \in 1..Len(ds) : ds[i] = d THEN ds ELSE Append(ds, d)

\* a request-level diagnostic has no path
Error(summary) == [severity |-> "error", path |-> "", summary |-> summary]

\* mutation: errors are never noticed, so no early return is taken
HasError_Never(ds) == FALSE

HasError(ds) == \E i \in 1..Len(ds) : ds[i].severity = "error"

-----------------------------------------------------------------------------
(* url.Parse, for strings without '#', '?', '%', '@', '[' and '*'          *)

Nil == [nil |-> TRUE]

Contains(s, chars) == \E i \in 1..Len(s) : s[i] \in chars

HasPrefix(s, p) == Len(s) >= Len(p) /\ SubSeq(s, 1, Len(p)) = p

\* position of the first c in s at or after i, 0 if there is none
RECURSIVE Index(_, _, _)
Index(s, c, i) ==
    IF i > Len(s) THEN 0
    ELSE IF s[i] = c THEN i
    ELSE Index(s, c, i + 1)

\* position of the last c in s at or before i, 0 if there is none
RECURSIVE LastIndex(_, _, _)
LastIndex(s, c, i) ==
    IF i < 1 THEN 0
    ELSE IF s[i] = c THEN i
    ELSE LastIndex(s, c, i - 1)

\* getScheme: the leading [a-zA-Z][a-zA-Z0-9+-.]* before a ':', if any
RECURSIVE GetScheme(_, _)
GetScheme(rawURL, i) ==
    LET none == [scheme |-> EmptyString, rest |-> rawURL, err |-> FALSE]
    IN  IF i > Len(rawURL) THEN none
        ELSE IF rawURL[i] \in Letters THEN GetScheme(rawURL, i + 1)
        ELSE IF rawURL[i] \in Digits \cup { "+", "-", "." }
            THEN IF i = 1 THEN none ELSE GetScheme(rawURL, i + 1)
        ELSE IF rawURL[i] = ":"
            THEN IF i = 1
                 THEN [scheme |-> EmptyString, rest |-> EmptyString, err |-> TRUE]
                 ELSE [scheme |-> SubSeq(rawURL, 1, i - 1),
                       rest |-> SubSeq(rawURL, i + 1, Len(rawURL)),
                       err |-> FALSE]
        ELSE none

\* validOptionalPort: "" or ':' followed by digits
ValidOptionalPort(port) ==
    \/ port = EmptyString
    \/ /\ port[1] = ":"
       /\ \A i \in 2..Len(port) : port[i] \in Digits

\* the bytes unescape accepts unescaped in a host name
HostBytes ==
    Letters \cup Digits \cup
    { "-", "_", ".", "~", "!", "$", "&", "'", "(", ")", "*", "+", ",", ";",
      "=", ":", "[", "]", "<", ">", "\"" }

\* parseHost: TRUE when the authority is rejected
ParseHostErr(authority) ==
    LET i == LastIndex(authority, ":", Len(authority))
    IN  \/ i # 0 /\ ~ValidOptionalPort(SubSeq(authority, i, Len(authority)))
        \/ \E j \in 1..Len(authority) : authority[j] \notin HostBytes

ParseFailed == [err |-> TRUE, url |-> Nil]

Parse(rawURL) ==
    IF Contains(rawURL, CTLBytes) THEN ParseFailed
    ELSE
    LET s == GetScheme(rawURL, 1)
        rest == s.rest
        url == [nil |-> FALSE, Scheme |-> s.scheme, Opaque |-> EmptyString,
                Host |-> EmptyString, Path |-> EmptyString]
    IN  IF s.err THEN ParseFailed
        ELSE IF ~HasPrefix(rest, << "/" >>) /\ s.scheme # EmptyString
            THEN [err |-> FALSE, url |-> [url EXCEPT !.Opaque = rest]]
        ELSE IF /\ ~HasPrefix(rest, << "/" >>)
                /\ LET cut == Index(rest, "/", 1)
                       segment == IF cut = 0 THEN rest
                                  ELSE SubSeq(rest, 1, cut - 1)
                   IN  Contains(segment, { ":" })
            THEN ParseFailed
        ELSE IF /\ s.scheme # EmptyString \/ ~HasPrefix(rest, << "/", "/", "/" >>)
                /\ HasPrefix(rest, << "/", "/" >>)
            THEN LET after == SubSeq(rest, 3, Len(rest))
                     cut == Index(after, "/", 1)
                     authority == IF cut = 0 THEN after
                                  ELSE SubSeq(after, 1, cut - 1)
                     path == IF cut = 0 THEN EmptyString
                             ELSE SubSeq(after, cut, Len(after))
                 IN  IF ParseHostErr(authority) THEN ParseFailed
                     ELSE [err |-> FALSE,
                           url |-> [url EXCEPT !.Host = authority,
                                               !.Path = path]]
        ELSE [err |-> FALSE, url |-> [url EXCEPT !.Path = rest]]

-----------------------------------------------------------------------------
(* The blocks of Configure                                                 *)

\* mutation: the checks are chained with else, so only the first unknown
\* attribute is reported
UnknownDiags_FirstOnly(ds, c) ==
    IF c.host.state = "deferred"
    THEN Append(ds, [severity |-> "error", path |-> "host",
                     summary |-> "Unknown PasteBin API Host"])
    ELSE IF c.dev_key.state = "deferred"
    THEN Append(ds, [severity |-> "error", path |-> "dev_key",
                     summary |-> "Unknown PasteBin API Dev Key"])
    ELSE IF c.user_key.state = "deferred"
    THEN Append(ds, [severity |-> "error", path |-> "user_key",
                     summary |-> "Unknown PasteBin API User Key"])
    ELSE ds

\* mutation: the check of user_key is missing
UnknownDiags_NoUserKey(ds, c) ==
    LET d1 == IF c.host.state = "deferred"
              THEN Append(ds, [severity |-> "error", path |-> "host",
                               summary |-> "Unknown PasteBin API Host"])
              ELSE ds
    IN  IF c.dev_key.state = "deferred"
        THEN Append(d1, [severity |-> "error", path |-> "dev_key",
                         summary |-> "Unknown PasteBin API Dev Key"])
        ELSE d1

\* the three IsUnknown checks: one diagnostic per unknown attribute
UnknownDiags(ds, c) ==
    LET d1 == IF IsUnknown(c.host)
              THEN Append1(ds, AttributeError("host", "Unknown PasteBin API Host"))
              ELSE ds
        d2 == IF IsUnknown(c.dev_key)
              THEN Append1(d1, AttributeError("dev_key", "Unknown PasteBin API Dev Key"))
              ELSE d1
    IN  IF IsUnknown(c.user_key)
        THEN Append1(d2, AttributeError("user_key", "Unknown PasteBin API User Key"))
        ELSE d2

\* mutation: the environment value wins over the configuration value
Override_EnvWins(envValue, field) ==
    IF envValue # EmptyString THEN envValue ELSE ValueString(field)

\* mutation: an empty configuration value counts as no value
Override_EmptyIsUnset(envValue, field) ==
    IF ~IsNull(field) /\ ValueString(field) # EmptyString
    THEN ValueString(field)
    ELSE envValue

\* the environment value, overridden by the configuration value unless null
Override(envValue, field) ==
    IF ~IsNull(field) THEN ValueString(field) ELSE envValue

\* mutation: the default is never applied
WithDefault_Never(h) == h

\* mutation: the default also replaces a host that does not parse
WithDefault_InvalidToo(h) ==
    IF h = EmptyString \/ Parse(h).err THEN DefaultHost ELSE h

\* an empty host becomes the default host
WithDefault(h) == IF h = EmptyString THEN DefaultHost ELSE h

\* mutation: the checks are chained with else, so only the first failure
\* is reported
ValidationDiags_FirstOnly(ds, parseErr, url, dev, user) ==
    IF parseErr \/ url = Nil
    THEN Append(ds, [severity |-> "error", path |-> "host",
                     summary |-> "Invalid PasteBin API Host"])
    ELSE IF dev = EmptyString
    THEN Append(ds, [severity |-> "error", path |-> "dev_key",
                     summary |-> "Missing PasteBin API Dev Key"])
    ELSE IF user = EmptyString
    THEN Append(ds, [severity |-> "error", path |-> "user_key",
                     summary |-> "Missing PasteBin API User Key"])
    ELSE ds

\* the three checks after url.Parse: each appends on its own
ValidationDiags(ds, parseErr, url, dev, user) ==
    LET d1 == IF parseErr \/ url = Nil
              THEN Append1(ds, AttributeError("host", "Invalid PasteBin API Host"))
              ELSE ds
        d2 == IF dev = EmptyString
              THEN Append1(d1, AttributeError("dev_key", "Missing PasteBin API Dev Key"))
              ELSE d1
    IN  IF user = EmptyString
        THEN Append1(d2, AttributeError("user_key", "Missing PasteBin API User Key"))
        ELSE d2

\* pastebin.New(*hostUrl, devKey, userKey)
New(url, dev, user) ==
    [nil |-> FALSE, baseUrl |-> url, devKey |-> dev, userKey |-> user]

\* req.Config.Get, resp.Diagnostics.Append(diags...), return on error
ReadConfig ==
    /\ pc = "start"
    /\ diags' = getDiags
    /\ pc' = IF HasError(getDiags) THEN "done" ELSE "unknown"
    /\ UNCHANGED << inputs, host, devKey, userKey, hostUrl, err,
                    DataSourceData, ResourceData >>

\* the unknown-value checks, return on error
CheckUnknown ==
    /\ pc = "unknown"
    /\ diags' = UnknownDiags(diags, cfg)
    /\ pc' = IF HasError(diags') THEN "done" ELSE "resolve"
    /\ UNCHANGED << inputs, host, devKey, userKey, hostUrl, err,
                    DataSourceData, ResourceData >>

\* os.Getenv and the three overrides
ResolvePrecedence ==
    /\ pc = "resolve"
    /\ host' = Override(env.PASTEBIN_HOST, cfg.host)
    /\ devKey' = Override(env.PASTEBIN_DEV_KEY, cfg.dev_key)
    /\ userKey' = Override(env.PASTEBIN_USER_KEY, cfg.user_key)
    /\ pc' = "validate"
    /\ UNCHANGED << inputs, hostUrl, err, diags, DataSourceData, ResourceData >>

\* the default host, url.Parse, the three checks, return on error
Validate ==
    /\ pc = "validate"
    /\ host' = WithDefault(host)
    /\ hostUrl' = Parse(host').url
    /\ err' = Parse(host').err
    /\ diags' = ValidationDiags(diags, err', hostUrl', devKey, userKey)
    /\ pc' = IF HasError(diags') THEN "done" ELSE "create"
    /\ UNCHANGED << inputs, devKey, userKey, DataSourceData, ResourceData >>

\* pastebin.New, the check of err, the hand-over of the client.  err is
\* still the result of url.Parse: pastebin.New returns the client only.
CreateClient ==
    /\ pc = "create"
    /\ LET client == New(hostUrl, devKey, userKey)
       IN  IF err
           THEN /\ diags' = Append1(diags, Error("Unable to Create PasteBin API Client"))
                /\ UNCHANGED << DataSourceData, ResourceData >>
           ELSE /\ DataSourceData' = client
                /\ ResourceData' = client
                /\ UNCHANGED diags
    /\ pc' = "done"
    /\ UNCHANGED << inputs, host, devKey, userKey, hostUrl, err >>

Configs ==
    [host : FieldsOf(HostValues),
     dev_key : FieldsOf(DevKeyValues),
     user_key : FieldsOf(UserKeyValues)]

Environments ==
    [PASTEBIN_HOST : HostValues,
     PASTEBIN_DEV_KEY : EnvDevKeyValues,
     PASTEBIN_USER_KEY : EnvUserKeyValues]

\* req.Config.Get returns nothing, or an error when decoding fails
GetResults == { << >>, << Error("Value Conversion Error") >> }

Init ==
    /\ cfg \in Configs
    /\ env \in Environments
    /\ getDiags \in GetResults
    /\ ctorFails \in BOOLEAN
    /\ pc = "start"
    /\ host = EmptyString
    /\ devKey = EmptyString
    /\ userKey = EmptyString
    /\ hostUrl = Nil
    /\ err = FALSE
    /\ diags = << >>
    /\ DataSourceData = Nil
    /\ ResourceData = Nil

Next ==
    \/ ReadConfig
    \/ CheckUnknown
    \/ ResolvePrecedence
    \/ Validate
    \/ CreateClient

Spec == Init /\ [][Next]_vars

-----------------------------------------------------------------------------
(* Vocabulary of the properties                                            *)

Done == pc = "done"

\* req.Config.Get succeeded: the three field states are those of cfg
Decoded == getDiags = << >>

Deferred(f) == cfg[f].state = "deferred"
AnyDeferred == \E f \in FieldNames : Deferred(f)

\* Configure ran to its end on a decoded configuration without unknown values
Validated == Done /\ Decoded /\ ~AnyDeferred

ClientHandedOver == DataSourceData # Nil /\ ResourceData # Nil
NoClient == DataSourceData = Nil /\ ResourceData = Nil

CountDiag(p, summary) ==
    Cardinality({ i \in 1..Len(diags) :
                    diags[i].path = p /\ diags[i].summary = summary })

CountSummary(summary) ==
    Cardinality({ i \in 1..Len(diags) : diags[i].summary = summary })

UnknownSummary ==
    [host |-> "Unknown PasteBin API Host",
     dev_key |-> "Unknown PasteBin API Dev Key",
     user_key |-> "Unknown PasteBin API User Key"]

UnknownSummaries == { UnknownSummary[f] : f \in FieldNames }

InvalidHost == "Invalid PasteBin API Host"
MissingDevKey == "Missing PasteBin API Dev Key"
MissingUserKey == "Missing PasteBin API User Key"
UnableToCreate == "Unable to Create PasteBin API Client"

FieldLevelDiag == \E i \in 1..Len(diags) : diags[i].path # ""

EnvOf ==
    [host |-> env.PASTEBIN_HOST,
     dev_key |-> env.PASTEBIN_DEV_KEY,
     user_key |-> env.PASTEBIN_USER_KEY]

LocalOf == [host |-> host, dev_key |-> devKey, user_key |-> userKey]

\* https://pastebin.com as url.Parse returns it
DefaultUrl ==
    [nil |-> FALSE,
     Scheme |-> << "h", "t", "t", "p", "s" >>,
     Opaque |-> << >>,
     Host |-> << "p", "a", "s", "t", "e", "b", "i", "n", ".", "c", "o", "m" >>,
     Path |-> << >>]

\* the hosts of HostValues that url.Parse rejects
RejectedHosts ==
    { NotAUrl,
      << "1", ":", "x" >>,
      << "h", ":", "/", "/", "x", " ", "y" >>,
      << "h", ":", "/", "/", "x", ":", "y" >>,
      << "\t", "x" >> }

-----------------------------------------------------------------------------
(* Properties                                                              *)

\* C1: a Configure call ends either with a client handed over (both
\* DataSourceData and ResourceData set) and no diagnostic, or with at least
\* one diagnostic and no client (both unset); before the end no client is
\* exposed, and the two response fields are never set apart.
C1_ClientXorDiagnostics ==
    /\ Done => (\/ ClientHandedOver /\ diags = << >>
                \/ NoClient /\ diags # << >>)
    /\ ~Done => NoClient
    /\ DataSourceData = ResourceData

C1_Witness ==
    /\ Done /\ ClientHandedOver /\ diags = << >>
    /\ cfg.host = Null /\ env.PASTEBIN_HOST = ExampleHost

\* C2: for each field, if its state is deferred, the finished call has exactly
\* one "Unknown ..." diagnostic of that field, attributed to that field, and no
\* client, whatever the environment and the other fields; there is one such
\* diagnostic per deferred field and none for a field that is not deferred.
C2_UnknownPerField ==
    (Done /\ Decoded) =>
        \A f \in FieldNames :
            /\ Deferred(f) => (CountDiag(f, UnknownSummary[f]) = 1 /\ NoClient)
            /\ CountSummary(UnknownSummary[f]) = IF Deferred(f) THEN 1 ELSE 0

C2_Witness ==
    /\ Done /\ Decoded
    /\ Deferred("dev_key") /\ Deferred("user_key") /\ ~Deferred("host")
    /\ env.PASTEBIN_DEV_KEY # EmptyString
    /\ env.PASTEBIN_USER_KEY # EmptyString
    /\ Len(diags) = 2

\* C3: if at least one field is deferred, Configure stops after the
\* deferred-value check: the blocks for precedence resolution, defaulting,
\* validation and client construction are never entered, the locals they
\* assign keep their initial values, and every diagnostic is an "Unknown ..."
\* one.
C3_StopsAfterUnknown ==
    (Decoded /\ AnyDeferred) =>
        /\ pc \in { "start", "unknown", "done" }
        /\ host = EmptyString /\ devKey = EmptyString /\ userKey = EmptyString
        /\ hostUrl = Nil /\ ~err
        /\ \A i \in 1..Len(diags) : diags[i].summary \in UnknownSummaries
        /\ Done => diags # << >>

C3_Witness ==
    /\ Done /\ Decoded
    /\ Deferred("user_key")
    /\ cfg.host = StringValue(NotAUrl)
    /\ cfg.dev_key = Null /\ env.PASTEBIN_DEV_KEY = EmptyString
    /\ Len(diags) = 1

\* C4: with no field deferred, the value of each field after precedence
\* resolution is the configuration value when the field is set to a non-empty
\* string, whatever the environment holds, and the environment value when the
\* field is unset and the environment value is non-empty.
C4_Precedence ==
    (Decoded /\ ~AnyDeferred /\ pc \in { "validate", "create", "done" }) =>
        \A f \in FieldNames :
            /\ (cfg[f].state = "set" /\ cfg[f].val # EmptyString)
               => LocalOf[f] = cfg[f].val
            /\ (cfg[f].state = "unset" /\ EnvOf[f] # EmptyString)
               => LocalOf[f] = EnvOf[f]

C4_Witness ==
    /\ pc = "validate"
    /\ cfg.host = StringValue(ExampleHost) /\ env.PASTEBIN_HOST = NotAUrl
    /\ cfg.dev_key = Null /\ env.PASTEBIN_DEV_KEY # EmptyString
    /\ cfg.user_key = StringValue(<< "U" >>) /\ env.PASTEBIN_USER_KEY # EmptyString
    /\ host = ExampleHost /\ userKey = << "U" >>

\* C5: a field set to the empty string counts as set: with dev_key set to ""
\* and a non-empty PASTEBIN_DEV_KEY, the empty value overrides the environment
\* value and the call fails with the "Missing Dev Key" diagnostic and no
\* client; likewise for user_key and PASTEBIN_USER_KEY.
C5_ExplicitEmptyIsSet ==
    Validated =>
        /\ (cfg.dev_key = StringValue(EmptyString) /\ env.PASTEBIN_DEV_KEY # EmptyString)
           => (/\ devKey = EmptyString
               /\ CountDiag("dev_key", MissingDevKey) = 1
               /\ NoClient)
        /\ (cfg.user_key = StringValue(EmptyString) /\ env.PASTEBIN_USER_KEY # EmptyString)
           => (/\ userKey = EmptyString
               /\ CountDiag("user_key", MissingUserKey) = 1
               /\ NoClient)

C5_Witness ==
    /\ Done /\ Decoded
    /\ cfg.host = StringValue(ExampleHost)
    /\ cfg.dev_key = StringValue(EmptyString)
    /\ cfg.user_key = StringValue(<< "U" >>)
    /\ env.PASTEBIN_DEV_KEY # EmptyString
    /\ diags = << AttributeError("dev_key", MissingDevKey) >>

\* C6: with no field deferred, "Missing Dev Key" is emitted (once, on dev_key)
\* exactly when dev_key is empty after precedence resolution, and "Missing
\* User Key" (once, on user_key) exactly when user_key is; neither depends on
\* the other or on the host check; with every field unset and only
\* PASTEBIN_DEV_KEY supplied, the one missing-value diagnostic is that of
\* user_key.
C6_MissingKeys ==
    Validated =>
        /\ CountSummary(MissingDevKey) = IF devKey = EmptyString THEN 1 ELSE 0
        /\ CountSummary(MissingUserKey) = IF userKey = EmptyString THEN 1 ELSE 0
        /\ CountDiag("dev_key", MissingDevKey) = CountSummary(MissingDevKey)
        /\ CountDiag("user_key", MissingUserKey) = CountSummary(MissingUserKey)
        /\ devKey = (IF cfg.dev_key.state = "set" THEN cfg.dev_key.val
                     ELSE env.PASTEBIN_DEV_KEY)
        /\ userKey = (IF cfg.user_key.state = "set" THEN cfg.user_key.val
                      ELSE env.PASTEBIN_USER_KEY)
        /\ (/\ cfg = [host |-> Null, dev_key |-> Null, user_key |-> Null]
            /\ env.PASTEBIN_HOST = EmptyString
            /\ env.PASTEBIN_DEV_KEY # EmptyString
            /\ env.PASTEBIN_USER_KEY = EmptyString)
           => (/\ diags = << AttributeError("user_key", MissingUserKey) >>
               /\ NoClient)

C6_Witness ==
    /\ Done /\ Decoded
    /\ cfg.host = StringValue(NotAUrl)
    /\ devKey = EmptyString /\ userKey = EmptyString
    /\ Len(diags) = 3

C6_WitnessScenario ==
    /\ Done /\ Decoded
    /\ cfg = [host |-> Null, dev_key |-> Null, user_key |-> Null]
    /\ env.PASTEBIN_HOST = EmptyString
    /\ env.PASTEBIN_DEV_KEY # EmptyString
    /\ env.PASTEBIN_USER_KEY = EmptyString

\* C7, in a finished call: an unset host with an empty PASTEBIN_HOST gives the
\* host https://pastebin.com, and any client built is built on it; with
\* dev_key "D", user_key "U" and an empty environment the call succeeds with
\* the client (https://pastebin.com, D, U).
C7_DefaultHostAtEnd ==
    (Validated /\ cfg.host = Null /\ env.PASTEBIN_HOST = EmptyString) =>
        /\ host = DefaultHost
        /\ hostUrl = DefaultUrl
        /\ ClientHandedOver => DataSourceData.baseUrl = DefaultUrl
        /\ (/\ cfg.dev_key = StringValue(<< "D" >>)
            /\ cfg.user_key = StringValue(<< "U" >>)
            /\ env.PASTEBIN_DEV_KEY = EmptyString
            /\ env.PASTEBIN_USER_KEY = EmptyString)
           => (/\ diags = << >>
               /\ DataSourceData = [nil |-> FALSE, baseUrl |-> DefaultUrl,
                                    devKey |-> << "D" >>, userKey |-> << "U" >>]
               /\ ResourceData = DataSourceData)

\* C7, in the defaulting step: a host that is empty after precedence
\* resolution becomes https://pastebin.com, and a non-empty one is kept.
C7_DefaultingStep ==
    pc = "validate" =>
        /\ host = EmptyString => host' = DefaultHost
        /\ host # EmptyString => host' = host

\* C7: if host is empty after precedence resolution the host used to build
\* the client is the literal https://pastebin.com; with dev_key "D", user_key
\* "U" and an empty environment Configure succeeds with (https://pastebin.com,
\* D, U); the default is never applied to a non-empty host.
C7_DefaultHost == [] C7_DefaultHostAtEnd /\ [][C7_DefaultingStep]_vars

C7_Witness ==
    /\ Done /\ Decoded
    /\ cfg = [host |-> Null, dev_key |-> StringValue(<< "D" >>),
              user_key |-> StringValue(<< "U" >>)]
    /\ env = [PASTEBIN_HOST |-> EmptyString, PASTEBIN_DEV_KEY |-> EmptyString,
              PASTEBIN_USER_KEY |-> EmptyString]
    /\ ClientHandedOver

\* C8: if host resolves to a non-empty string that is not a valid URL, the
\* call fails with one "Invalid Host" diagnostic on host and hands over no
\* client, also when dev_key and user_key are non-empty; the invalid host is
\* kept, never replaced by the default.
C8_InvalidHost ==
    Validated =>
        /\ \A h \in RejectedHosts :
              (\/ cfg.host = StringValue(h)
               \/ cfg.host = Null /\ env.PASTEBIN_HOST = h)
              => (/\ host = h
                  /\ CountDiag("host", InvalidHost) = 1
                  /\ CountSummary(InvalidHost) = 1
                  /\ NoClient)
        /\ CountSummary(InvalidHost) = 1 => host \in RejectedHosts
        /\ CountSummary(InvalidHost) <= 1

C8_Witness ==
    /\ Done /\ Decoded
    /\ cfg.host = StringValue(NotAUrl)
    /\ devKey = << "D" >> /\ userKey = << "U" >>
    /\ diags = << AttributeError("host", InvalidHost) >>

\* C9 (as claimed): when the configuration validates (no field-level
\* diagnostic) but the external constructor fails, the call ends with the
\* single request-level diagnostic "Unable to Create PasteBin API Client" and
\* no client.
C9_ConstructorFailureSurfaced ==
    (Validated /\ ~FieldLevelDiag /\ ctorFails) =>
        /\ diags = << Error(UnableToCreate) >>
        /\ NoClient

\* C10: a host set to the empty string discards a non-empty PASTEBIN_HOST:
\* the host is empty after precedence resolution and then falls to
\* https://pastebin.com, whether or not the environment host would parse; the
\* environment host is no fallback for an explicitly empty host.
C10_ExplicitEmptyHost ==
    (/\ Decoded
     /\ ~AnyDeferred
     /\ cfg.host = StringValue(EmptyString)
     /\ env.PASTEBIN_HOST # EmptyString)
    => (/\ pc = "validate" => host = EmptyString
        /\ pc \in { "create", "done" }
           => (/\ host = DefaultHost
               /\ hostUrl = DefaultUrl
               /\ CountSummary(InvalidHost) = 0)
        /\ ClientHandedOver => DataSourceData.baseUrl = DefaultUrl)

C10_Witness ==
    /\ Done /\ Decoded
    /\ cfg.host = StringValue(EmptyString)
    /\ env.PASTEBIN_HOST = NotAUrl
    /\ ClientHandedOver
    /\ DataSourceData.baseUrl = DefaultUrl

====
